---- MODULE Spec2Model ----
(***************************************************************************)
(* Model of the Aegis in-VM Python SDK (sdk/python/aegis): the workspace   *)
(* resolver (workspace.py), the secret accessor (secrets.py) and the       *)
(* structured logger (log.py).                                             *)
(*                                                                         *)
(* Strings are modelled as sequences of tokens, so that the empty string   *)
(* is <<>> and a path such as "/tmp/run1" is <<"/", "tmp", "/", "run1">>:  *)
(* os.path.join and path resolution inspect the separators.                *)
(***************************************************************************)
EXTENDS Naturals, Sequences, FiniteSets, TLC

VARIABLES
    environ,    \* os.environ: a function from the names that are set to their values
    dirs,       \* the directories of the filesystem (absolute component sequences)
    files,      \* the non-directory entries of the filesystem
    sec_ret,    \* outcome of the aegis.secrets call just made (no_call after an environment event)
    ws_ret,     \* outcome of the aegis.workspace call just made (no_call after an environment event)
    ws_prev,    \* the aegis.workspace call made immediately before ws_ret, if any
    ws_seen,    \* the roots workspace_path() has returned so far
    streams,    \* sys.stdout / sys.stderr: status and the tokens written so far
    call,       \* per thread: the aegis.log call it is executing, or idle
    log_ret,    \* outcome of the aegis.log call that finished last
    clock,      \* number of timestamps read so far (datetime.now is strictly increasing here)
    returned    \* per logger operation: how many calls of it have returned normally

vars == <<environ, dirs, files, sec_ret, ws_ret, ws_prev, ws_seen, streams, call, log_ret, clock, returned>>

no_call == [op |-> "none"]

\* A value returned to the caller, Python's None, and an exception raised to the caller.
Value(v) == [kind |-> "value", value |-> v]
None == [kind |-> "None"]
Raise(exc, message) == [kind |-> "raise", exc |-> exc, message |-> message]

Contains(s, tok) == \E i \in 1..Len(s) : s[i] = tok

\* os.environ[name] = value and del os.environ[name], as the tests' monkeypatch does.
setenv(env, name, value) ==
    [n \in DOMAIN env \cup {name} |-> IF n = name THEN value ELSE env[n]]
delenv(env, name) == [n \in DOMAIN env \ {name} |-> env[n]]

(***************************************************************************)
(* aegis/secrets.py                                                        *)
(***************************************************************************)
SecretNames == {"DB_PASSWORD", "db_password", "GREETING"}
SecretValues == {<<>>, <<"hunter2">>, <<"Hello">>}

REMEDIATION == "aegis secret set"

\* The message of AegisSecretError: the f-string and the literal that follows it.
secret_error_message(name) ==
    <<"Secret '", name, "' not available. ",
      "Ensure it is set via '", REMEDIATION, "' and the task/app references it.">>

\* Faulty variant: `os.environ.get(name) or None`, which turns an empty value into None.
get_secret_falsy(env, name) ==
    IF name \in DOMAIN env /\ env[name] # <<>> THEN Value(env[name]) ELSE None

\* os.environ.get(name)
get_secret(env, name) ==
    IF name \in DOMAIN env THEN Value(env[name]) ELSE None

\* Faulty variant: the KeyError is swallowed and None returned.
require_secret_swallow(env, name) ==
    IF name \in DOMAIN env THEN Value(env[name]) ELSE None

\* os.environ[name], KeyError turned into AegisSecretError
require_secret(env, name) ==
    IF name \in DOMAIN env
    THEN Value(env[name])
    ELSE Raise("AegisSecretError", secret_error_message(name))

SetSecret(name, value) ==
    /\ environ' = setenv(environ, name, value)
    /\ sec_ret' = no_call
    /\ UNCHANGED <<dirs, files, ws_ret, ws_prev, ws_seen, streams, call, log_ret, clock, returned>>

DelSecret(name) ==
    /\ name \in DOMAIN environ
    /\ environ' = delenv(environ, name)
    /\ sec_ret' = no_call
    /\ UNCHANGED <<dirs, files, ws_ret, ws_prev, ws_seen, streams, call, log_ret, clock, returned>>

GetSecret(name) ==
    /\ sec_ret' = [op |-> "get_secret", name |-> name, pre |-> environ,
                   result |-> get_secret(environ, name)]
    /\ UNCHANGED <<environ, dirs, files, ws_ret, ws_prev, ws_seen, streams, call, log_ret, clock, returned>>

RequireSecret(name) ==
    /\ sec_ret' = [op |-> "require_secret", name |-> name, pre |-> environ,
                   result |-> require_secret(environ, name)]
    /\ UNCHANGED <<environ, dirs, files, ws_ret, ws_prev, ws_seen, streams, call, log_ret, clock, returned>>

(***************************************************************************)
(* aegis/workspace.py                                                      *)
(***************************************************************************)
ENV_VAR == "AEGIS_WORKSPACE_PATH"
MOUNT == <<"/", "workspace">>
FALLBACK == <<".", "/", "workspace">>
SUBDIRS == <<"data", "output", ".cache">>

\* The process's working directory and the override values tried: the empty
\* string, an absolute path, and an absolute path with a trailing separator.
Cwd == <<"app">>
OverrideValues == {<<>>, <<"/", "tmp", "/", "run1">>, <<"/", "srv", "/">>}

\* The absolute component sequence a path string names (no ".." and no symlinks here).
abspath(p) ==
    LET comps == SelectSeq(p, LAMBDA t : t # "/" /\ t # ".")
    IN  IF p # <<>> /\ p[1] = "/" THEN comps ELSE Cwd \o comps

Prefixes(c) == {SubSeq(c, 1, i) : i \in 0..Len(c)}

\* os.path.isdir
isdir(ds, p) == p # <<>> /\ abspath(p) \in ds

\* os.path.join(a, b) on POSIX
os_path_join(a, b) ==
    IF b # <<>> /\ b[1] = "/" THEN b
    ELSE IF a = <<>> \/ a[Len(a)] = "/" THEN a \o b
    ELSE a \o <<"/">> \o b

\* Faulty variant: the root is resolved once and kept in a module-level cache.
workspace_path_cached(env, ds) ==
    IF ws_seen # {} THEN CHOOSE r \in ws_seen : TRUE
    ELSE IF ENV_VAR \in DOMAIN env /\ env[ENV_VAR] # <<>> THEN env[ENV_VAR]
    ELSE IF isdir(ds, MOUNT) THEN MOUNT
    ELSE FALLBACK

workspace_path(env, ds) ==
    IF ENV_VAR \in DOMAIN env /\ env[ENV_VAR] # <<>> THEN env[ENV_VAR]
    ELSE IF isdir(ds, MOUNT) THEN MOUNT
    ELSE FALLBACK

\* Faulty variant: the separator is left out (root + "data").
subdir_path_concat(env, ds, name) == workspace_path(env, ds) \o <<name>>

\* data_path / output_path / cache_path: os.path.join(workspace_path(), name)
subdir_path(env, ds, name) == os_path_join(workspace_path(env, ds), <<name>>)

data_path(env, ds) == subdir_path(env, ds, "data")
output_path(env, ds) == subdir_path(env, ds, "output")
cache_path(env, ds) == subdir_path(env, ds, ".cache")

\* Faulty variant: exist_ok left at its default.
exist_ok_false == FALSE
\* The exist_ok argument ensure_dirs passes to os.makedirs.
exist_ok == TRUE

\* os.makedirs(name, exist_ok=ok) on a filesystem fs = [dirs, files]: the new
\* filesystem and the exception raised, if any.
makedirs(fs, name, ok) ==
    LET c == abspath(name)
    IN  IF \E q \in Prefixes(c) : q # c /\ q \in fs.files
        THEN [fs |-> fs, exc |-> "NotADirectoryError"]
        ELSE IF c \in fs.files
        THEN [fs |-> fs, exc |-> "FileExistsError"]
        ELSE IF c \in fs.dirs
        THEN [fs |-> fs, exc |-> IF ok THEN "none" ELSE "FileExistsError"]
        ELSE [fs |-> [fs EXCEPT !.dirs = @ \cup Prefixes(c)], exc |-> "none"]

\* ensure_dirs(): the three makedirs calls in order, stopping at the first exception.
RECURSIVE makedirs_from(_, _, _)
makedirs_from(fs, root, i) ==
    IF i > Len(SUBDIRS) THEN [fs |-> fs, exc |-> "none"]
    ELSE LET r == makedirs(fs, os_path_join(root, <<SUBDIRS[i]>>), exist_ok)
         IN  IF r.exc # "none" THEN r ELSE makedirs_from(r.fs, root, i + 1)

ensure_dirs(env, fs) == makedirs_from(fs, workspace_path(env, fs.dirs), 1)

Fs == [dirs |-> dirs, files |-> files]
World == [environ |-> environ, dirs |-> dirs, files |-> files]

\* --- the environment of the resolver: the override variable and the filesystem
SetOverride(value) ==
    /\ environ' = setenv(environ, ENV_VAR, value)
    /\ ws_ret' = no_call /\ ws_prev' = no_call
    /\ UNCHANGED <<dirs, files, sec_ret, ws_seen, streams, call, log_ret, clock, returned>>

DelOverride ==
    /\ ENV_VAR \in DOMAIN environ
    /\ environ' = delenv(environ, ENV_VAR)
    /\ ws_ret' = no_call /\ ws_prev' = no_call
    /\ UNCHANGED <<dirs, files, sec_ret, ws_seen, streams, call, log_ret, clock, returned>>

\* Directories and files other programs may create, and a tree they may remove.
ExternalDirs == {<<"workspace">>, <<"tmp", "run1", "logs">>}
ExternalFiles == {<<"workspace">>, <<"tmp", "run1", "output">>}
Removable == {<<"workspace">>, <<"tmp", "run1">>}

Exists(c) == c \in dirs \/ c \in files
Parent(c) == SubSeq(c, 1, Len(c) - 1)

ExternalMkdir(c) ==
    /\ ~Exists(c) /\ Parent(c) \in dirs
    /\ dirs' = dirs \cup {c}
    /\ ws_ret' = no_call /\ ws_prev' = no_call
    /\ UNCHANGED <<environ, files, sec_ret, ws_seen, streams, call, log_ret, clock, returned>>

ExternalCreateFile(c) ==
    /\ ~Exists(c) /\ Parent(c) \in dirs
    /\ files' = files \cup {c}
    /\ ws_ret' = no_call /\ ws_prev' = no_call
    /\ UNCHANGED <<environ, dirs, sec_ret, ws_seen, streams, call, log_ret, clock, returned>>

Under(c, top) == Len(c) >= Len(top) /\ SubSeq(c, 1, Len(top)) = top

ExternalRemoveTree(top) ==
    /\ Exists(top)
    /\ dirs' = {c \in dirs : ~Under(c, top)}
    /\ files' = {c \in files : ~Under(c, top)}
    /\ ws_ret' = no_call /\ ws_prev' = no_call
    /\ UNCHANGED <<environ, sec_ret, ws_seen, streams, call, log_ret, clock, returned>>

\* --- the calls into aegis.workspace
WsReturn(op, result) ==
    /\ ws_ret' = [op |-> op, pre |-> World, result |-> result]
    /\ ws_prev' = ws_ret

WorkspacePath ==
    /\ WsReturn("workspace_path", Value(workspace_path(environ, dirs)))
    /\ ws_seen' = ws_seen \cup {workspace_path(environ, dirs)}
    /\ UNCHANGED <<environ, dirs, files, sec_ret, streams, call, log_ret, clock, returned>>

DataPath ==
    /\ WsReturn("data_path", Value(data_path(environ, dirs)))
    /\ UNCHANGED <<environ, dirs, files, sec_ret, ws_seen, streams, call, log_ret, clock, returned>>

OutputPath ==
    /\ WsReturn("output_path", Value(output_path(environ, dirs)))
    /\ UNCHANGED <<environ, dirs, files, sec_ret, ws_seen, streams, call, log_ret, clock, returned>>

CachePath ==
    /\ WsReturn("cache_path", Value(cache_path(environ, dirs)))
    /\ UNCHANGED <<environ, dirs, files, sec_ret, ws_seen, streams, call, log_ret, clock, returned>>

EnsureDirs ==
    LET r == ensure_dirs(environ, Fs)
    IN  /\ dirs' = r.fs.dirs
        /\ files' = r.fs.files
        /\ WsReturn("ensure_dirs",
                    IF r.exc = "none" THEN None ELSE Raise(r.exc, <<>>))
        /\ UNCHANGED <<environ, sec_ret, ws_seen, streams, call, log_ret, clock, returned>>

(***************************************************************************)
(* aegis/log.py                                                            *)
(***************************************************************************)
Threads == {"t1", "t2"}
MaxCalls == 2

Ops == {"debug", "info", "warn", "error"}
StreamNames == {"stdout", "stderr"}

\* Python values of the primitive types a caller passes: type and repr.
Py(type, repr) == [type |-> type, repr |-> repr]
Str(text) == Py("str", text)

\* What is written to a stream: JSON tokens and the newline.
Tok(kind, text) == [kind |-> kind, text |-> text]
LBRACE == Tok("punct", "{")
RBRACE == Tok("punct", "}")
COLON == Tok("punct", ": ")
COMMA == Tok("punct", ", ")
NL == Tok("newline", "\n")

Msgs == {"hello"}
\* The keyword arguments callers pass (ordered key/value pairs): none,
\* ordinary extras around one named ts, and an extra named like a parameter.
KwargsChoices ==
    { <<>>,
      << <<"status", Py("int", "200")>>, <<"ts", Str("200")>>, <<"ok", Py("bool", "True")>> >>,
      << <<"level", Str("custom")>> >>,
      << <<"msg", Str("other")>> >>,
      << <<"stream", Str("x")>> >> }

Keys(kv) == {kv[i][1] : i \in 1..Len(kv)}
Lookup(kv, k) == kv[CHOOSE i \in 1..Len(kv) : kv[i][1] = k][2]

\* d[k] = v on a dict: an existing key keeps its place, a new one goes last.
dict_set(d, k, v) ==
    IF k \in Keys(d)
    THEN [i \in 1..Len(d) |-> IF d[i][1] = k THEN <<k, v>> ELSE d[i]]
    ELSE Append(d, <<k, v>>)

\* dict.update(kwargs)
RECURSIVE dict_update(_, _)
dict_update(d, kv) ==
    IF kv = <<>> THEN d
    ELSE dict_update(dict_set(d, kv[1][1], kv[1][2]), Tail(kv))

\* datetime.now(timezone.utc).isoformat() at the n-th reading of the clock
isoformat(n) == "2026-01-01T00:00:0" \o ToString(n) \o ".000001+00:00"

\* json.dumps of a primitive: str quoted, int as a number, bool as true/false.
json_value(v) ==
    IF v.type = "str" THEN Tok("string", v.repr)
    ELSE IF v.type = "int" THEN Tok("number", v.repr)
    ELSE Tok("literal", IF v.repr = "True" THEN "true" ELSE "false")

\* json.dumps(record, ensure_ascii=False)
RECURSIVE json_items(_)
json_items(d) ==
    IF d = <<>> THEN <<>>
    ELSE <<Tok("string", d[1][1]), COLON, json_value(d[1][2])>>
         \o (IF Len(d) > 1 THEN <<COMMA>> ELSE <<>>)
         \o json_items(Tail(d))

json_dumps(d) == <<LBRACE>> \o json_items(d) \o <<RBRACE>>

\* json.loads, as the tests read a line back: is the text one flat JSON
\* object, and the key/value pairs it holds.
IsJsonObject(toks) ==
    /\ Len(toks) >= 5
    /\ (Len(toks) - 1) % 4 = 0
    /\ toks[1] = LBRACE
    /\ toks[Len(toks)] = RBRACE
    /\ \A i \in 1..((Len(toks) - 1) \div 4) :
        /\ toks[4 * i - 2].kind = "string"
        /\ toks[4 * i - 1] = COLON
        /\ toks[4 * i].kind \in {"string", "number", "literal"}
        /\ 4 * i + 1 < Len(toks) => toks[4 * i + 1] = COMMA

py_value(tok) ==
    IF tok.kind = "string" THEN Str(tok.text)
    ELSE IF tok.kind = "number" THEN Py("int", tok.text)
    ELSE Py("bool", IF tok.text = "true" THEN "True" ELSE "False")

json_loads(toks) ==
    [i \in 1..((Len(toks) - 1) \div 4) |-> <<toks[4 * i - 2].text, py_value(toks[4 * i])>>]

\* str.splitlines on a stream's content
RECURSIVE splitlines(_)
splitlines(c) ==
    IF c = <<>> THEN <<>>
    ELSE LET i == CHOOSE i \in 1..(Len(c) + 1) :
                    /\ i = Len(c) + 1 \/ c[i] = NL
                    /\ \A j \in 1..(i - 1) : c[j] # NL
         IN  IF i > Len(c) THEN <<c>>
             ELSE <<SubSeq(c, 1, i - 1)>> \o splitlines(SubSeq(c, i + 1, Len(c)))

\* Python's argument binding: a keyword argument named like a parameter that
\* is already bound positionally is a TypeError ("got multiple values").
\* info/warn/error/debug bind msg; _emit binds stream, level and msg.
OpParams == {"msg"}
EmitParams == {"stream", "level", "msg"}
binds(params, kwargs) == Keys(kwargs) \cap params = {}

\* The record _emit builds: the three reserved keys, then record.update(kwargs).
emit_record(level, msg, now, kwargs) ==
    dict_update(<< <<"level", Str(level)>>, <<"msg", Str(msg)>>,
                   <<"ts", Str(isoformat(now))>> >>, kwargs)

\* The argument of stream.write: json.dumps(record) + "\n"
emit_line(level, msg, now, kwargs) ==
    json_dumps(emit_record(level, msg, now, kwargs)) \o <<NL>>

\* Faulty variant: the record and the newline are written by two write calls, as print() does.
write_chunks_split(line) == <<SubSeq(line, 1, Len(line) - 1), <<NL>>>>

\* The stream.write calls _emit makes for a line: one, with the whole line.
write_chunks(line) == <<line>>

\* Faulty variant: error() writes to sys.stdout like the others.
stream_of_stdout(op) == "stdout"

\* info, warn and debug pass sys.stdout to _emit; error passes sys.stderr.
stream_of(op) == IF op = "error" THEN "stderr" ELSE "stdout"

OtherStream(s) == IF s = "stdout" THEN "stderr" ELSE "stdout"

\* Faulty variant: a failed write is retried on the other stream.
emit_write_fallback(strs, target, s) ==
    IF strs[target].status = "open"
    THEN [streams |-> [strs EXCEPT ![target].content = @ \o s], exc |-> "none"]
    ELSE IF strs[OtherStream(target)].status = "open"
    THEN [streams |-> [strs EXCEPT ![OtherStream(target)].content = @ \o s],
          exc |-> "none"]
    ELSE [streams |-> strs,
          exc |-> IF strs[target].status = "closed" THEN "ValueError" ELSE "OSError"]

\* stream.write(s) in _emit: the text is appended in one call, or the stream
\* raises (ValueError on a closed file, OSError on one that cannot be written)
\* and the exception leaves _emit, which handles nothing.
emit_write(strs, target, s) ==
    IF strs[target].status = "open"
    THEN [streams |-> [strs EXCEPT ![target].content = @ \o s], exc |-> "none"]
    ELSE [streams |-> strs,
          exc |-> IF strs[target].status = "closed" THEN "ValueError" ELSE "OSError"]

idle == [state |-> "idle"]

\* A thread calls op(msg, **kwargs): the arguments are bound, and _emit reads
\* the clock and builds the line it is about to write. A call whose
\* arguments do not bind ends here with TypeError.
LogCall(t, op, msg, kwargs) ==
    /\ call[t] = idle
    /\ clock < MaxCalls
    /\ IF binds(OpParams, kwargs) /\ binds(EmitParams, kwargs)
       THEN /\ call' = [call EXCEPT ![t] =
                    [state |-> "writing", op |-> op, msg |-> msg, kwargs |-> kwargs,
                     now |-> clock, stream |-> stream_of(op),
                     line |-> emit_line(op, msg, clock, kwargs),
                     pending |-> write_chunks(emit_line(op, msg, clock, kwargs))]]
            /\ clock' = clock + 1
            /\ UNCHANGED log_ret
       ELSE /\ log_ret' = [state |-> "raised", exc |-> "TypeError", op |-> op,
                           msg |-> msg, kwargs |-> kwargs, line |-> <<>>]
            /\ UNCHANGED <<call, clock>>
    /\ UNCHANGED <<environ, dirs, files, sec_ret, ws_ret, ws_prev, ws_seen, streams, returned>>

\* The thread's next stream.write; after the last one the call returns, and
\* an exception from the stream ends the call.
LogWrite(t) ==
    /\ call[t] # idle
    /\ LET c == call[t]
           r == emit_write(streams, c.stream, Head(c.pending))
           rest == Tail(c.pending)
       IN  /\ streams' = r.streams
           /\ IF r.exc # "none"
              THEN /\ call' = [call EXCEPT ![t] = idle]
                   /\ log_ret' = [state |-> "raised", exc |-> r.exc, op |-> c.op,
                                  msg |-> c.msg, kwargs |-> c.kwargs, line |-> <<>>]
                   /\ UNCHANGED returned
              ELSE IF rest = <<>>
              THEN /\ call' = [call EXCEPT ![t] = idle]
                   /\ log_ret' = [state |-> "returned", exc |-> "none", op |-> c.op,
                                  msg |-> c.msg, kwargs |-> c.kwargs, line |-> c.line]
                   /\ returned' = [returned EXCEPT ![c.op] = @ + 1]
              ELSE /\ call' = [call EXCEPT ![t].pending = rest]
                   /\ UNCHANGED <<log_ret, returned>>
    /\ UNCHANGED <<environ, dirs, files, sec_ret, ws_ret, ws_prev, ws_seen, clock>>

\* sys.stdout / sys.stderr is closed, or its destination stops accepting writes.
StreamFails(s, status) ==
    /\ streams[s].status = "open"
    /\ streams' = [streams EXCEPT ![s].status = status]
    /\ UNCHANGED <<environ, dirs, files, sec_ret, ws_ret, ws_prev, ws_seen, call, log_ret, clock, returned>>

(***************************************************************************)
(* Initial state and specifications                                        *)
(***************************************************************************)

Init ==
    /\ environ = <<>>
    /\ dirs = Prefixes(Cwd) \cup {<<"tmp">>}
    /\ files = {}
    /\ sec_ret = no_call
    /\ ws_ret = no_call
    /\ ws_prev = no_call
    /\ ws_seen = {}
    /\ streams = [s \in StreamNames |-> [status |-> "open", content |-> <<>>]]
    /\ call = [t \in Threads |-> idle]
    /\ log_ret = [state |-> "none"]
    /\ clock = 0
    /\ returned = [o \in Ops |-> 0]

NextSecrets ==
    \/ \E n \in SecretNames, v \in SecretValues : SetSecret(n, v)
    \/ \E n \in SecretNames : DelSecret(n)
    \/ \E n \in SecretNames : GetSecret(n)
    \/ \E n \in SecretNames : RequireSecret(n)

SpecSecrets == Init /\ [][NextSecrets]_vars

NextWorkspace ==
    \/ \E v \in OverrideValues : SetOverride(v)
    \/ DelOverride
    \/ \E c \in ExternalDirs : ExternalMkdir(c)
    \/ \E c \in ExternalFiles : ExternalCreateFile(c)
    \/ \E c \in Removable : ExternalRemoveTree(c)
    \/ WorkspacePath
    \/ DataPath
    \/ OutputPath
    \/ CachePath
    \/ EnsureDirs

SpecWorkspace == Init /\ [][NextWorkspace]_vars

\* Concurrent callers of the logger, on streams that stay writable.
NextLog ==
    \/ \E t \in Threads, op \in Ops, msg \in Msgs, kwargs \in KwargsChoices :
            LogCall(t, op, msg, kwargs)
    \/ \E t \in Threads : LogWrite(t)

SpecLog == Init /\ [][NextLog]_vars

\* One caller of the logger, on streams that may be closed or stop
\* accepting writes at any moment.
MainThread == CHOOSE t \in Threads : TRUE

NextLogIO ==
    \/ \E op \in Ops, msg \in Msgs, kwargs \in KwargsChoices :
            LogCall(MainThread, op, msg, kwargs)
    \/ LogWrite(MainThread)
    \/ \E s \in StreamNames, status \in {"closed", "unwritable"} : StreamFails(s, status)

SpecLogIO == Init /\ [][NextLogIO]_vars

(***************************************************************************)
(* Properties of the secret accessor                                       *)
(***************************************************************************)

\* C7: require_secret(name) returns the environment value when name is set;
\* when it is unset it raises AegisSecretError to the caller, with a message
\* holding the literal name and the remediation text; it never returns
\* normally in that case, and the environment is as it was before the call.
C7_RequireSecret ==
    sec_ret.op = "require_secret" =>
        LET e == sec_ret.pre
            n == sec_ret.name
        IN  /\ n \in DOMAIN e => sec_ret.result = Value(e[n])
            /\ n \notin DOMAIN e =>
                /\ sec_ret.result.kind = "raise"
                /\ sec_ret.result.exc = "AegisSecretError"
                /\ Contains(sec_ret.result.message, n)
                /\ Contains(sec_ret.result.message, "aegis secret set")
            /\ environ = e

C7_Witness ==
    /\ sec_ret.op = "require_secret"
    /\ sec_ret.name \notin DOMAIN environ
    /\ sec_ret.result.kind = "raise"
    /\ DOMAIN environ # {}

\* C8: get_secret(name) never raises; it returns exactly the value set for
\* that exact, case-sensitive name and None when the name is unset; a
\* variable set to the empty string yields the empty string, not None.
C8_GetSecret ==
    sec_ret.op = "get_secret" =>
        LET e == sec_ret.pre
            n == sec_ret.name
        IN  /\ sec_ret.result.kind # "raise"
            /\ n \in DOMAIN e =>
                /\ sec_ret.result.kind = "value"
                /\ sec_ret.result.value = e[n]
            /\ n \notin DOMAIN e => sec_ret.result = None
            /\ (n \in DOMAIN e /\ e[n] = <<>>) => sec_ret.result # None

C8_Witness ==
    /\ sec_ret.op = "get_secret"
    /\ sec_ret.name = "db_password"
    /\ "DB_PASSWORD" \notin DOMAIN environ
    /\ "db_password" \in DOMAIN environ
    /\ environ["db_password"] = <<>>
    /\ sec_ret.result = Value(<<>>)

(***************************************************************************)
(* Properties of the workspace resolver                                    *)
(***************************************************************************)
OverrideSet(e) == ENV_VAR \in DOMAIN e /\ e[ENV_VAR] # <<>>

\* C5: workspace_path() is a function of the environment and filesystem at
\* the call alone: the override's value whenever it is set and non-empty,
\* whatever the filesystem holds; otherwise /workspace if that is a
\* directory, and otherwise ./workspace. Roots returned earlier play no part.
C5_ResolveRoot ==
    ws_ret.op = "workspace_path" =>
        LET e == ws_ret.pre.environ
        IN  /\ ws_ret.result.kind = "value"
            /\ OverrideSet(e) => ws_ret.result.value = e[ENV_VAR]
            /\ (~OverrideSet(e) /\ <<"workspace">> \in ws_ret.pre.dirs) =>
                    ws_ret.result.value = <<"/", "workspace">>
            /\ (~OverrideSet(e) /\ <<"workspace">> \notin ws_ret.pre.dirs) =>
                    ws_ret.result.value = <<".", "/", "workspace">>

\* An empty override, /workspace present as a regular file, and a different
\* root returned by an earlier call.
C5_Witness ==
    /\ ws_ret.op = "workspace_path"
    /\ ENV_VAR \in DOMAIN environ /\ environ[ENV_VAR] = <<>>
    /\ <<"workspace">> \in files
    /\ ws_ret.result.value = FALLBACK
    /\ \E r \in ws_seen : r # ws_ret.result.value

Joined(root, name) ==
    IF root = <<>> \/ root[Len(root)] = "/"
    THEN root \o <<name>>
    ELSE root \o <<"/", name>>

\* C10: data_path(), output_path() and cache_path() equal workspace_path()
\* of the same environment and filesystem joined with data, output and
\* .cache respectively.
C10_SubdirPaths ==
    LET root == workspace_path(ws_ret.pre.environ, ws_ret.pre.dirs)
    IN  /\ ws_ret.op = "data_path" => ws_ret.result = Value(Joined(root, "data"))
        /\ ws_ret.op = "output_path" => ws_ret.result = Value(Joined(root, "output"))
        /\ ws_ret.op = "cache_path" => ws_ret.result = Value(Joined(root, ".cache"))

C10_Witness ==
    /\ ws_ret.op = "cache_path"
    /\ ws_prev.op = "output_path"
    /\ OverrideSet(environ)
    /\ environ[ENV_VAR] = <<"/", "srv", "/">>
    /\ ws_ret.result.value = <<"/", "srv", "/", ".cache">>

Children(entries, root) == {c \in entries : c # <<>> /\ Parent(c) = abspath(root)}
Conventional(root) == {abspath(root) \o <<SUBDIRS[i]>> : i \in 1..Len(SUBDIRS)}

\* C6: a second ensure_dirs() right after a first one, on the same root,
\* ends as the first did and changes nothing; after a first call that
\* succeeded it therefore does not fail, data, output and .cache are
\* directories under the root, and they are the only entries the two calls
\* added there (exactly those three on a root that held nothing).
C6_EnsureDirsTwice ==
    (ws_ret.op = "ensure_dirs" /\ ws_prev.op = "ensure_dirs") =>
        LET root == workspace_path(ws_ret.pre.environ, ws_ret.pre.dirs)
            before == ws_prev.pre.dirs \cup ws_prev.pre.files
        IN  /\ root = workspace_path(ws_prev.pre.environ, ws_prev.pre.dirs)
            /\ ws_ret.result = ws_prev.result
            /\ dirs = ws_ret.pre.dirs
            /\ files = ws_ret.pre.files
            /\ ws_prev.result = None =>
                /\ ws_ret.result = None
                /\ Conventional(root) \subseteq dirs
                /\ Children(dirs \cup files, root)
                        = Children(before, root) \cup Conventional(root)

\* Two calls on a root that held nothing: exactly the three are there.
C6_Witness ==
    /\ ws_ret.op = "ensure_dirs"
    /\ ws_prev.op = "ensure_dirs"
    /\ ws_prev.result = None
    /\ ws_ret.result = None
    /\ Children(ws_prev.pre.dirs \cup ws_prev.pre.files, workspace_path(environ, dirs)) = {}
    /\ Children(dirs \cup files, workspace_path(environ, dirs)) = Conventional(workspace_path(environ, dirs))

(***************************************************************************)
(* Properties of the structured logger                                     *)
(***************************************************************************)
Record(line) == SubSeq(line, 1, Len(line) - 1)
Level(text) == Lookup(json_loads(text), "level").repr
CountLevel(lines, op) == Cardinality({i \in DOMAIN lines : Level(lines[i]) = op})
TotalReturned == returned["debug"] + returned["info"] + returned["warn"] + returned["error"]

C2_ExtraWins ==
    log_ret.state # "none" =>
        \A k \in {"level", "msg", "ts"} \cap Keys(log_ret.kwargs) :
            /\ log_ret.state = "returned"
            /\ Lookup(json_loads(Record(log_ret.line)), k) = Lookup(log_ret.kwargs, k)

\* C3: a finished log call wrote a record in which every extra it passed,
\* whatever its name, is a top-level key with the value and type passed.
C3_ExtrasVerbatim ==
    log_ret.state # "none" =>
        \A k \in Keys(log_ret.kwargs) :
            /\ log_ret.state = "returned"
            /\ k \in Keys(json_loads(Record(log_ret.line)))
            /\ Lookup(json_loads(Record(log_ret.line)), k) = Lookup(log_ret.kwargs, k)

\* C4: stdout holds exactly one record for each debug, info and warn call
\* that returned, each with the level of its operation, and no record of
\* level error; stderr holds exactly one record of level error for each
\* error call that returned, and nothing else.
C4_Routing ==
    LET out == splitlines(streams["stdout"].content)
        err == splitlines(streams["stderr"].content)
    IN  /\ \A i \in DOMAIN out :
            IsJsonObject(out[i]) /\ Level(out[i]) \in {"debug", "info", "warn"}
        /\ \A i \in DOMAIN err :
            IsJsonObject(err[i]) /\ Level(err[i]) = "error"
        /\ \A op \in {"debug", "info", "warn"} : CountLevel(out, op) = returned[op]
        /\ CountLevel(err, "error") = returned["error"]

C4_Witness ==
    /\ returned["error"] = 1
    /\ returned["warn"] = 1
    /\ Len(splitlines(streams["stdout"].content)) = 1
    /\ Len(splitlines(streams["stderr"].content)) = 1

C9_Step(t) ==
    (/\ call[t] # idle
     /\ call'[t] # call[t]
     /\ streams[call[t].stream].status # "open") =>
        /\ call'[t] = idle
        /\ log_ret'.state = "raised"
        /\ log_ret'.exc \in {"ValueError", "OSError"}
        /\ log_ret'.op = call[t].op
        /\ streams' = streams
        /\ returned' = returned

\* C9: a write to a stream that is closed or cannot be written ends the call
\* with the stream's exception; the call is over (no retry), and neither
\* stream's content has changed.
C9_FailedWrite == [][\A t \in Threads : C9_Step(t)]_vars

\* error() failed on a closed stderr while stdout was open and already in use.
C9_Witness ==
    /\ log_ret.state = "raised"
    /\ log_ret.op = "error"
    /\ log_ret.exc = "ValueError"
    /\ streams["stderr"].content = <<>>
    /\ streams["stdout"].status = "open"
    /\ Len(splitlines(streams["stdout"].content)) = 1
====
